---- MODULE Spec2Model ----
(***************************************************************************)
(* SalesforceToS3Operator (salesforce_operator.py): the operator's         *)
(* configuration attributes, the steps of execute() and special_query(),   *)
(* the scoped temporary file, and the calls made on the Salesforce hook    *)
(* and the S3 hook.  The hooks are external: each call on them either      *)
(* returns (with a value drawn from a small set) or raises.                *)
(***************************************************************************)
EXTENDS Integers, Sequences, FiniteSets, TLC

VARIABLES
    cfg,        \* the operator's attributes (self.*), lines 76-86
    cfg0,       \* the attributes as __init__ left them (history)
    pc,         \* position inside execute / special_query
    caller,     \* who entered special_query: "execute" or "direct"
    sqArgs,     \* special_query's parameters (query, relationship_object)
    fieldsIn,   \* self.fields when the current execute began (history)
    availRet,   \* what get_available_fields returned in this execution
    results,    \* the local `query` of execute / `results` of special_query
    rawRecords, \* make_query's records as the hook returned them (history)
    tmp,        \* the NamedTemporaryFile of the current execution
    calls,      \* hook calls (and tmp.flush) invoked in this execution, in order
    status,     \* "idle", "running", "returned", "raised"
    err,        \* what was raised, and by which step
    uploaded,   \* load_file returned normally in the current execution
    runs        \* number of executions started on this instance

vars ==
    <<cfg, cfg0, pc, caller, sqArgs, fieldsIn, availRet, results,
      rawRecords, tmp, calls, status, err, uploaded, runs>>

----------------------------------------------------------------------------
(* Bounds *)

MaxRuns ==
    2

MaxRecs ==
    2

----------------------------------------------------------------------------
(* Python values *)

None ==
    "None"

\* truth value of a str-or-None (`if not query`, `if self.query`,
\* `if relationship_object`)
Truthy(s) ==
    s # None /\ s # ""

\* self.fields: None or a list of field names
FNone ==
    [isNone |-> TRUE, items |-> <<>>]

FList(s) ==
    [isNone |-> FALSE, items |-> s]

\* `not self.fields` with the None-only test a slip would write
NotFieldsNoneOnly(f) ==
    f.isNone

\* the test of line 132 inverted (`if self.fields:`)
NotFieldsInverted(f) ==
    ~(f.isNone \/ Len(f.items) = 0)

\* `not self.fields` (line 132): None and the empty list are both falsy
NotFields(f) ==
    f.isNone \/ Len(f.items) = 0

\* str.lower() on the format tags used here (line 82)
Lower(s) ==
    CASE s = "CSV" -> "csv"
      [] s = "Json" -> "json"
      [] OTHER -> s

----------------------------------------------------------------------------
(* Input domains *)

FieldArgs ==
    {FNone, FList(<<>>), FList(<<"Id">>), FList(<<"Id", "Name">>)}

\* values get_available_fields may return
AvailFields ==
    {<<>>, <<"Name">>, <<"Id", "Name", "Phone">>}

QueryArgs ==
    {None, "", "SELECT"}

RelArgs ==
    {None, "", "Contacts"}

FmtArgs ==
    {"csv", "CSV"}

\* a record is a dict: a function from its keys to values
Child(id) ==
    [k \in {"Id"} |-> id]

\* value stored under a relationship key: None, {} or {'records': [...]}
RelNone ==
    [kind |-> "None", records |-> <<>>]

RelEmpty ==
    [kind |-> "empty", records |-> <<>>]

RelNested(rs) ==
    [kind |-> "dict", records |-> rs]

ChildLists ==
    {<<>>, <<Child("A")>>, <<Child("A"), Child("B")>>}

RelValues ==
    {RelNone, RelEmpty} \cup {RelNested(rs) : rs \in ChildLists}

TopRecords ==
    {[k \in {"Id"} |-> "1"]}
    \cup {[k \in {"Id", "Contacts"} |->
             IF k = "Id" THEN "1" ELSE v] : v \in RelValues}

RECURSIVE SeqsUpTo(_, _)
SeqsUpTo(S, n) ==
    IF n = 0 THEN {<<>>}
    ELSE LET shorter == SeqsUpTo(S, n - 1)
         IN  shorter \cup {Append(s, x) : s \in {t \in shorter : Len(t) = n - 1}, x \in S}

\* record lists make_query may return
RecordLists ==
    SeqsUpTo(TopRecords, MaxRecs)

\* record lists get_object_from_salesforce may return: flat records
ObjectRecordLists ==
    SeqsUpTo({[k \in {"Id"} |-> "1"]}, MaxRecs)

----------------------------------------------------------------------------
(* Helpers *)

\* dict.get(key, None) on a record (line 98)
Get(r, key) ==
    IF key \in DOMAIN r THEN r[key] ELSE RelNone

\* truth value of a relationship value: None and {} are falsy
TruthyVal(v) ==
    v.kind = "dict"

\* the loop with `records = r[rel]['records']` in place of extend
RECURSIVE FlattenLoopAssign(_, _, _, _)
FlattenLoopAssign(recs, rel, i, acc) ==
    IF i > Len(recs) THEN acc
    ELSE FlattenLoopAssign(recs, rel, i + 1,
                           IF TruthyVal(Get(recs[i], rel))
                           THEN recs[i][rel].records
                           ELSE acc)

\* lines 96-99: records = []; for r in results['records']:
\*                  if r.get(rel, None): records.extend(r[rel]['records'])
RECURSIVE FlattenLoop(_, _, _, _)
FlattenLoop(recs, rel, i, acc) ==
    IF i > Len(recs) THEN acc
    ELSE FlattenLoop(recs, rel, i + 1,
                     IF TruthyVal(Get(recs[i], rel))
                     THEN acc \o recs[i][rel].records
                     ELSE acc)

\* lines 95-100: the records special_query leaves in results['records']
SpecialQueryRecords(recs, rel) ==
    IF Truthy(rel) THEN FlattenLoop(recs, rel, 1, <<>>) ELSE recs

\* a hook call as it is invoked
Call(op, args) ==
    [op |-> op, args |-> args]

NoArgs ==
    [none |-> TRUE]

\* load_file called without replace
LoadFileCallNoReplace(t, c) ==
    Call("load_file", [filename |-> t.name, key |-> c.output,
                       bucket_name |-> c.s3_bucket, replace |-> FALSE])

\* lines 164-169
LoadFileCall(t, c) ==
    Call("load_file", [filename |-> t.name, key |-> c.output,
                       bucket_name |-> c.s3_bucket, replace |-> TRUE])

\* line 147
GetObjectCall(c) ==
    Call("get_object_from_salesforce", [obj |-> c.object, fields |-> c.fields.items])

\* lines 152-158
WriteCall(t, c, recs) ==
    Call("write_object_to_file",
         [records |-> recs, filename |-> t.name, fmt |-> c.fmt,
          coerce_to_timestamp |-> c.coerce_to_timestamp,
          record_time_added |-> c.record_time_added])

\* line 114: a fresh, empty, existing file
NamedTemporaryFile(n) ==
    [name |-> n, exists |-> TRUE, content |-> <<>>, flushed |-> FALSE, closed |-> FALSE]

NoFile ==
    [name |-> 0, exists |-> FALSE, content |-> <<>>, flushed |-> FALSE, closed |-> TRUE]

\* tmp.close() (line 171): closing a NamedTemporaryFile deletes it
Close(t) ==
    [t EXCEPT !.exists = FALSE, !.closed = TRUE, !.content = <<>>]

\* a scope exit that forgets the file
ExitWithLeak(t) ==
    t

\* leaving the `with` block (line 114): the file is closed and deleted
ExitWith(t) ==
    [t EXCEPT !.exists = FALSE, !.closed = TRUE, !.content = <<>>]

NoErr ==
    [type |-> "none", at |-> "none"]

\* an exception leaves the running method; inside execute it also leaves
\* the `with` block
Raise(type, at) ==
    /\ status' = "raised"
    /\ err' = [type |-> type, at |-> at]
    /\ pc' = "idle"
    /\ tmp' = IF caller = "execute" THEN ExitWith(tmp) ELSE tmp

Invoke(c) ==
    calls' = Append(calls, c)

----------------------------------------------------------------------------
(* State after __init__ (lines 76-86) *)

Init ==
    /\ \E f \in FieldArgs, q \in QueryArgs, r \in RelArgs, fm \in FmtArgs :
         cfg = [sf_conn_id |-> "sf", output |-> "out.csv", s3_conn_id |-> "s3",
                s3_bucket |-> "bucket", object |-> "Account", fields |-> f,
                fmt |-> Lower(fm), query |-> q, relationship_object |-> r,
                record_time_added |-> FALSE, coerce_to_timestamp |-> FALSE]
    /\ cfg0 = cfg
    /\ pc = "idle"
    /\ caller = "none"
    /\ sqArgs = [query |-> None, relationship_object |-> None]
    /\ fieldsIn = FNone
    /\ availRet = FNone
    /\ results = [records |-> <<>>]
    /\ rawRecords = <<>>
    /\ tmp = NoFile
    /\ calls = <<>>
    /\ status = "idle"
    /\ err = NoErr
    /\ uploaded = FALSE
    /\ runs = 0

----------------------------------------------------------------------------
(* execute (lines 104-172), one action per step that can raise *)

\* lines 114-122: enter the `with` block, build the hook
Execute ==
    /\ pc = "idle"
    /\ runs < MaxRuns
    /\ runs' = runs + 1
    /\ tmp' = NamedTemporaryFile(runs + 1)
    /\ caller' = "execute"
    /\ fieldsIn' = cfg.fields
    /\ availRet' = FNone
    /\ results' = [records |-> <<>>]
    /\ rawRecords' = <<>>
    /\ calls' = <<>>
    /\ status' = "running"
    /\ err' = NoErr
    /\ uploaded' = FALSE
    /\ pc' = "e_sign_in"
    /\ UNCHANGED <<cfg, cfg0, sqArgs>>

\* line 127: hook.sign_in() returns
SignInOk ==
    /\ pc = "e_sign_in"
    /\ Invoke(Call("sign_in", NoArgs))
    /\ pc' = "e_fields"
    /\ UNCHANGED <<cfg, cfg0, caller, sqArgs, fieldsIn, availRet, results,
                   rawRecords, tmp, status, err, uploaded, runs>>

\* line 127: hook.sign_in() raises
SignInRaise ==
    /\ pc = "e_sign_in"
    /\ Invoke(Call("sign_in", NoArgs))
    /\ Raise("HookError", "sign_in")
    /\ UNCHANGED <<cfg, cfg0, caller, sqArgs, fieldsIn, availRet, results,
                   rawRecords, uploaded, runs>>

\* lines 132-133 with the assignment made unconditionally
ResolveFieldsAlways ==
    /\ pc = "e_fields"
    /\ Invoke(Call("get_available_fields", [obj |-> cfg.object]))
    /\ \E fs \in AvailFields :
         /\ cfg' = [cfg EXCEPT !.fields = FList(fs)]
         /\ availRet' = FList(fs)
    /\ pc' = "e_fetch"
    /\ UNCHANGED <<cfg0, caller, sqArgs, fieldsIn, results, rawRecords,
                   tmp, status, err, uploaded, runs>>

\* lines 132-133 with the hook's answer never stored in self.fields
ResolveFieldsNotStored ==
    /\ pc = "e_fields"
    /\ IF NotFields(cfg.fields)
       THEN /\ Invoke(Call("get_available_fields", [obj |-> cfg.object]))
            /\ \E fs \in AvailFields : availRet' = FList(fs)
       ELSE UNCHANGED <<calls, availRet>>
    /\ pc' = "e_fetch"
    /\ UNCHANGED <<cfg, cfg0, caller, sqArgs, fieldsIn, results, rawRecords,
                   tmp, status, err, uploaded, runs>>

\* lines 132-133: if not self.fields:
\*                    self.fields = hook.get_available_fields(self.object)
ResolveFields ==
    /\ pc = "e_fields"
    /\ IF NotFields(cfg.fields)
       THEN /\ Invoke(Call("get_available_fields", [obj |-> cfg.object]))
            /\ \E fs \in AvailFields :
                 /\ cfg' = [cfg EXCEPT !.fields = FList(fs)]
                 /\ availRet' = FList(fs)
       ELSE UNCHANGED <<calls, cfg, availRet>>
    /\ pc' = "e_fetch"
    /\ UNCHANGED <<cfg0, caller, sqArgs, fieldsIn, results, rawRecords,
                   tmp, status, err, uploaded, runs>>

\* line 133: get_available_fields raises
ResolveFieldsRaise ==
    /\ pc = "e_fields"
    /\ NotFields(cfg.fields)
    /\ Invoke(Call("get_available_fields", [obj |-> cfg.object]))
    /\ Raise("HookError", "get_available_fields")
    /\ UNCHANGED <<cfg, cfg0, caller, sqArgs, fieldsIn, availRet, results,
                   rawRecords, uploaded, runs>>

\* lines 140-145: self.query is truthy, enter special_query
FetchCustom ==
    /\ pc = "e_fetch"
    /\ Truthy(cfg.query)
    /\ sqArgs' = [query |-> cfg.query,
                  relationship_object |-> cfg.relationship_object]
    /\ pc' = "sq_check"
    /\ UNCHANGED <<cfg, cfg0, caller, fieldsIn, availRet, results, rawRecords,
                   tmp, calls, status, err, uploaded, runs>>

\* lines 146-147: get_object_from_salesforce returns
FetchObjectOk ==
    /\ pc = "e_fetch"
    /\ ~Truthy(cfg.query)
    /\ Invoke(GetObjectCall(cfg))
    /\ \E recs \in ObjectRecordLists : results' = [records |-> recs]
    /\ pc' = "e_write"
    /\ UNCHANGED <<cfg, cfg0, caller, sqArgs, fieldsIn, availRet, rawRecords,
                   tmp, status, err, uploaded, runs>>

\* lines 146-147: get_object_from_salesforce raises
FetchObjectRaise ==
    /\ pc = "e_fetch"
    /\ ~Truthy(cfg.query)
    /\ Invoke(GetObjectCall(cfg))
    /\ Raise("HookError", "get_object_from_salesforce")
    /\ UNCHANGED <<cfg, cfg0, caller, sqArgs, fieldsIn, availRet, results,
                   rawRecords, uploaded, runs>>

----------------------------------------------------------------------------
(* special_query (lines 88-102) *)

\* special_query called on its own, with a hook the caller supplies
SpecialQuery ==
    /\ pc = "idle"
    /\ runs < MaxRuns
    /\ runs' = runs + 1
    /\ \E q \in QueryArgs, r \in RelArgs :
         sqArgs' = [query |-> q, relationship_object |-> r]
    /\ caller' = "direct"
    /\ fieldsIn' = cfg.fields
    /\ availRet' = FNone
    /\ results' = [records |-> <<>>]
    /\ rawRecords' = <<>>
    /\ calls' = <<>>
    /\ status' = "running"
    /\ err' = NoErr
    /\ uploaded' = FALSE
    /\ pc' = "sq_check"
    /\ UNCHANGED <<cfg, cfg0, tmp>>

\* the guard placed after the sign-in
SQCheckAfterSignIn ==
    /\ pc = "sq_check"
    /\ IF Truthy(sqArgs.query)
       THEN /\ pc' = "sq_sign_in"
            /\ UNCHANGED <<tmp, status, err, calls>>
       ELSE /\ Invoke(Call("sign_in", NoArgs))
            /\ Raise("ValueError", "special_query")
    /\ UNCHANGED <<cfg, cfg0, caller, sqArgs, fieldsIn, availRet, results,
                   rawRecords, uploaded, runs>>

\* lines 89-90: if not query: raise ValueError(...)
SQCheck ==
    /\ pc = "sq_check"
    /\ IF Truthy(sqArgs.query)
       THEN /\ pc' = "sq_sign_in"
            /\ UNCHANGED <<tmp, status, err>>
       ELSE Raise("ValueError", "special_query")
    /\ UNCHANGED <<cfg, cfg0, caller, sqArgs, fieldsIn, availRet, results,
                   rawRecords, calls, uploaded, runs>>

\* line 92 left out
SQSignInSkipped ==
    /\ pc = "sq_sign_in"
    /\ pc' = "sq_query"
    /\ UNCHANGED <<cfg, cfg0, caller, sqArgs, fieldsIn, availRet, results,
                   rawRecords, tmp, calls, status, err, uploaded, runs>>

\* line 92: sf_hook.sign_in() returns
SQSignInOk ==
    /\ pc = "sq_sign_in"
    /\ Invoke(Call("sign_in", NoArgs))
    /\ pc' = "sq_query"
    /\ UNCHANGED <<cfg, cfg0, caller, sqArgs, fieldsIn, availRet, results,
                   rawRecords, tmp, status, err, uploaded, runs>>

\* line 92: sf_hook.sign_in() raises
SQSignInRaise ==
    /\ pc = "sq_sign_in"
    /\ Invoke(Call("sign_in", NoArgs))
    /\ Raise("HookError", "sign_in")
    /\ UNCHANGED <<cfg, cfg0, caller, sqArgs, fieldsIn, availRet, results,
                   rawRecords, uploaded, runs>>

\* lines 94-102: make_query returns, the records are flattened, and
\* special_query returns to its caller (execute resumes at line 149)
SQMakeQueryOk ==
    /\ pc = "sq_query"
    /\ Invoke(Call("make_query", [query |-> sqArgs.query]))
    /\ \E recs \in RecordLists :
         /\ rawRecords' = recs
         /\ results' = [records |->
                          SpecialQueryRecords(recs, sqArgs.relationship_object)]
    /\ IF caller = "execute"
       THEN /\ pc' = "e_write"
            /\ UNCHANGED status
       ELSE /\ pc' = "idle"
            /\ status' = "returned"
    /\ UNCHANGED <<cfg, cfg0, caller, sqArgs, fieldsIn, availRet, tmp, err,
                   uploaded, runs>>

\* line 94: make_query raises
SQMakeQueryRaise ==
    /\ pc = "sq_query"
    /\ Invoke(Call("make_query", [query |-> sqArgs.query]))
    /\ Raise("HookError", "make_query")
    /\ UNCHANGED <<cfg, cfg0, caller, sqArgs, fieldsIn, availRet, results,
                   rawRecords, uploaded, runs>>

----------------------------------------------------------------------------
(* execute, lines 149-172 *)

\* lines 152-158: write_object_to_file writes the records to tmp.name
WriteOk ==
    /\ pc = "e_write"
    /\ Invoke(WriteCall(tmp, cfg, results.records))
    /\ tmp' = [tmp EXCEPT !.content = results.records]
    /\ pc' = "e_flush"
    /\ UNCHANGED <<cfg, cfg0, caller, sqArgs, fieldsIn, availRet, results,
                   rawRecords, status, err, uploaded, runs>>

\* lines 152-158: write_object_to_file raises
WriteRaise ==
    /\ pc = "e_write"
    /\ Invoke(WriteCall(tmp, cfg, results.records))
    /\ Raise("HookError", "write_object_to_file")
    /\ UNCHANGED <<cfg, cfg0, caller, sqArgs, fieldsIn, availRet, results,
                   rawRecords, uploaded, runs>>

\* line 162: tmp.flush() returns
FlushOk ==
    /\ pc = "e_flush"
    /\ Invoke(Call("tmp.flush", NoArgs))
    /\ tmp' = [tmp EXCEPT !.flushed = TRUE]
    /\ pc' = "e_load"
    /\ UNCHANGED <<cfg, cfg0, caller, sqArgs, fieldsIn, availRet, results,
                   rawRecords, status, err, uploaded, runs>>

\* line 162: tmp.flush() raises
FlushRaise ==
    /\ pc = "e_flush"
    /\ Invoke(Call("tmp.flush", NoArgs))
    /\ Raise("IOError", "flush")
    /\ UNCHANGED <<cfg, cfg0, caller, sqArgs, fieldsIn, availRet, results,
                   rawRecords, uploaded, runs>>

\* the upload left out: the connection is closed straight away
LoadFileSkipped ==
    /\ pc = "e_load"
    /\ pc' = "e_close"
    /\ UNCHANGED <<cfg, cfg0, caller, sqArgs, fieldsIn, availRet, results,
                   rawRecords, tmp, calls, status, err, uploaded, runs>>

\* lines 163-169: load_file returns
LoadFileOk ==
    /\ pc = "e_load"
    /\ Invoke(LoadFileCall(tmp, cfg))
    /\ uploaded' = TRUE
    /\ pc' = "e_close"
    /\ UNCHANGED <<cfg, cfg0, caller, sqArgs, fieldsIn, availRet, results,
                   rawRecords, tmp, status, err, runs>>

\* lines 163-169: load_file raises
LoadFileRaise ==
    /\ pc = "e_load"
    /\ Invoke(LoadFileCall(tmp, cfg))
    /\ Raise("HookError", "load_file")
    /\ UNCHANGED <<cfg, cfg0, caller, sqArgs, fieldsIn, availRet, results,
                   rawRecords, uploaded, runs>>

\* line 170: dest_s3.connection.close() returns
ConnCloseOk ==
    /\ pc = "e_close"
    /\ Invoke(Call("connection.close", NoArgs))
    /\ pc' = "e_tmp_close"
    /\ UNCHANGED <<cfg, cfg0, caller, sqArgs, fieldsIn, availRet, results,
                   rawRecords, tmp, status, err, uploaded, runs>>

\* line 170: dest_s3.connection.close() raises
ConnCloseRaise ==
    /\ pc = "e_close"
    /\ Invoke(Call("connection.close", NoArgs))
    /\ Raise("HookError", "connection.close")
    /\ UNCHANGED <<cfg, cfg0, caller, sqArgs, fieldsIn, availRet, results,
                   rawRecords, uploaded, runs>>

\* lines 171-172: tmp.close() deletes the file, the `with` block is left
\* and execute returns
TmpClose ==
    /\ pc = "e_tmp_close"
    /\ tmp' = ExitWith(Close(tmp))
    /\ status' = "returned"
    /\ pc' = "idle"
    /\ UNCHANGED <<cfg, cfg0, caller, sqArgs, fieldsIn, availRet, results,
                   rawRecords, calls, err, uploaded, runs>>

Next ==
    \/ Execute
    \/ SignInOk
    \/ SignInRaise
    \/ ResolveFields
    \/ ResolveFieldsRaise
    \/ FetchCustom
    \/ FetchObjectOk
    \/ FetchObjectRaise
    \/ SpecialQuery
    \/ SQCheck
    \/ SQSignInOk
    \/ SQSignInRaise
    \/ SQMakeQueryOk
    \/ SQMakeQueryRaise
    \/ WriteOk
    \/ WriteRaise
    \/ FlushOk
    \/ FlushRaise
    \/ LoadFileOk
    \/ LoadFileRaise
    \/ ConnCloseOk
    \/ ConnCloseRaise
    \/ TmpClose

Spec ==
    Init /\ [][Next]_vars

----------------------------------------------------------------------------
(* Reading the call trace *)

Positions(op) ==
    {i \in DOMAIN calls : calls[i].op = op}

Count(op) ==
    Cardinality(Positions(op))

InExecute ==
    caller = "execute"

Finished ==
    pc = "idle" /\ status \in {"returned", "raised"}

FetchOps ==
    {"get_object_from_salesforce", "make_query"}

FetchPositions ==
    {i \in DOMAIN calls : calls[i].op \in FetchOps}

\* make_query has returned in the current call of special_query
QueryReturned ==
    /\ Count("make_query") = 1
    /\ ~(status = "raised" /\ err.at = "make_query")

----------------------------------------------------------------------------
(* C1: whenever execute has returned or raised, whichever step raised,    *)
(* the temporary file acquired by that execution no longer exists.         *)
C1_TempFileRemoved ==
    (InExecute /\ Finished) => (~tmp.exists /\ tmp.name = runs)

C1_Witness ==
    /\ InExecute
    /\ status = "raised"
    /\ err.at = "write_object_to_file"
    /\ ~tmp.exists

----------------------------------------------------------------------------
(* C2 as stated: an execution that returned has uploaded, and an           *)
(* execution that raised has not uploaded.                                 *)
C2_NoPartialSuccess ==
    InExecute =>
        /\ status = "returned" => uploaded
        /\ status = "raised" => ~uploaded

(* C2 amended: an execution that returned has uploaded exactly once; an    *)
(* execution that raised at any step up to and including load_file has not *)
(* uploaded; an execution that raised at the connection close that follows *)
(* load_file has both failed and uploaded.                                 *)
C2_UploadedUnlessFailedBeforeClose ==
    InExecute =>
        /\ status = "returned" => (uploaded /\ Count("load_file") = 1)
        /\ (status = "raised" /\ err.at # "connection.close") => ~uploaded
        /\ (status = "raised" /\ err.at = "connection.close") => uploaded

C2_Witness ==
    /\ InExecute
    /\ status = "raised"
    /\ err.at = "connection.close"
    /\ uploaded

----------------------------------------------------------------------------
----------------------------------------------------------------------------
(* C4 as stated: whenever a fetch has been invoked in an execution, the    *)
(* resolved field list is non-empty.                                       *)
C4_FieldsNonEmptyAtFetch ==
    (InExecute /\ FetchPositions # {}) =>
        (~cfg.fields.isNone /\ Len(cfg.fields.items) > 0)

(* C4 amended: whenever a fetch has been invoked, the resolved field list  *)
(* is a list, and it is empty exactly when no non-empty list was           *)
(* configured and get_available_fields returned the empty list.            *)
C4_FieldsEmptyOnlyIfHookEmpty ==
    (InExecute /\ FetchPositions # {}) =>
        /\ ~cfg.fields.isNone
        /\ Len(cfg.fields.items) = 0
             <=> /\ (fieldsIn.isNone \/ fieldsIn.items = <<>>)
                 /\ availRet = FList(<<>>)

C4_Witness ==
    /\ InExecute
    /\ Count("get_object_from_salesforce") = 1
    /\ fieldsIn = FList(<<>>)
    /\ availRet = FList(<<"Name">>)
    /\ cfg.fields.items = <<"Name">>

----------------------------------------------------------------------------
(* C5 as stated: the configuration attributes always equal those set at    *)
(* construction.                                                           *)
C5_ConfigImmutable ==
    cfg = cfg0

(* C5 amended: every attribute other than fields always equals its value   *)
(* at construction, and fields does too when it was constructed as a       *)
(* non-empty list; a None or empty fields is overwritten by execute.       *)
C5_OnlyUnsetFieldsChanges ==
    /\ [cfg EXCEPT !.fields = cfg0.fields] = cfg0
    /\ ~(cfg0.fields.isNone \/ cfg0.fields.items = <<>>)
           => cfg.fields = cfg0.fields
    /\ cfg.fields # cfg0.fields => ~cfg.fields.isNone

C5_Witness ==
    /\ InExecute
    /\ status = "returned"
    /\ cfg0.fields.isNone
    /\ cfg.fields = FList(<<"Id", "Name", "Phone">>)
    /\ [cfg EXCEPT !.fields = cfg0.fields] = cfg0

----------------------------------------------------------------------------
(* C6: load_file is never invoked twice in an execution and never before   *)
(* write_object_to_file and the flush; it carries replace = TRUE, the      *)
(* configured output as key and the configured bucket; an execution that   *)
(* returned invoked it exactly once.                                       *)
C6_UploadOnceAfterWriteAndFlush ==
    InExecute =>
        /\ Count("load_file") <= 1
        /\ status = "returned" => Count("load_file") = 1
        /\ \A i \in Positions("load_file") :
             /\ calls[i].args = [filename |-> tmp.name, key |-> cfg.output,
                                 bucket_name |-> cfg.s3_bucket,
                                 replace |-> TRUE]
             /\ \E w \in Positions("write_object_to_file") :
                  \E f \in Positions("tmp.flush") : w < f /\ f < i

C6_Witness ==
    /\ InExecute
    /\ status = "returned"
    /\ Count("load_file") = 1
    /\ Count("write_object_to_file") = 1
    /\ Count("tmp.flush") = 1

----------------------------------------------------------------------------
(* C7: in an execution begun with fields None or empty, once               *)
(* get_available_fields has returned, self.fields is the list it returned, *)
(* it was asked for the configured object, and get_object_from_salesforce  *)
(* is called with that list.                                               *)
C7_UnsetFieldsResolveToAvailable ==
    (InExecute /\ (fieldsIn.isNone \/ fieldsIn.items = <<>>)) =>
        /\ pc \notin {"e_sign_in", "e_fields"} /\ status # "raised"
               => (~availRet.isNone /\ cfg.fields = availRet)
        /\ \A i \in Positions("get_available_fields") :
               calls[i].args.obj = cfg.object
        /\ \A i \in Positions("get_object_from_salesforce") :
               /\ ~availRet.isNone
               /\ calls[i].args.fields = availRet.items
               /\ calls[i].args.obj = cfg.object

C7_Witness ==
    /\ InExecute
    /\ fieldsIn.isNone
    /\ availRet = FList(<<"Id", "Name", "Phone">>)
    /\ \E i \in Positions("get_object_from_salesforce") :
           calls[i].args.fields = <<"Id", "Name", "Phone">>

----------------------------------------------------------------------------
(* C8: in an execution begun with a non-empty field list, self.fields      *)
(* stays that list, get_available_fields is never called, and              *)
(* get_object_from_salesforce is called with that list.                    *)
C8_ExplicitFieldsKept ==
    (InExecute /\ ~fieldsIn.isNone /\ fieldsIn.items # <<>>) =>
        /\ cfg.fields = fieldsIn
        /\ Count("get_available_fields") = 0
        /\ \A i \in Positions("get_object_from_salesforce") :
               calls[i].args.fields = fieldsIn.items

C8_Witness ==
    /\ InExecute
    /\ status = "returned"
    /\ fieldsIn = FList(<<"Id", "Name">>)
    /\ Count("get_available_fields") = 0
    /\ Count("get_object_from_salesforce") = 1

----------------------------------------------------------------------------
(* Reference flattening, written from the last record backwards *)

Front(s) ==
    SubSeq(s, 1, Len(s) - 1)

NestedOf(r, rel) ==
    IF rel \in DOMAIN r /\ r[rel].kind \notin {"None", "empty"}
    THEN r[rel].records
    ELSE <<>>

RECURSIVE RefConcat(_, _)
RefConcat(recs, rel) ==
    IF recs = <<>> THEN <<>>
    ELSE RefConcat(Front(recs), rel) \o NestedOf(recs[Len(recs)], rel)

RefFlatten(recs, rel) ==
    IF rel \in {None, ""} THEN recs ELSE RefConcat(recs, rel)

(* C9: once make_query has returned, the records special_query holds are   *)
(* the reference flattening of what make_query returned: the raw list when *)
(* no relationship object is configured, otherwise the in-order            *)
(* concatenation of the nested records, skipping records without them.     *)
C9_FlattenMatchesReference ==
    QueryReturned =>
        results.records = RefFlatten(rawRecords, sqArgs.relationship_object)

C9_Witness ==
    /\ QueryReturned
    /\ sqArgs.relationship_object = "Contacts"
    /\ rawRecords =
         <<[k \in {"Id", "Contacts"} |->
              IF k = "Id" THEN "1"
              ELSE RelNested(<<Child("A"), Child("B")>>)],
           [k \in {"Id"} |-> "1"]>>
    /\ results.records = <<Child("A"), Child("B")>>

----------------------------------------------------------------------------
(* C10: an execution never invokes both fetches nor either one twice; one  *)
(* that got past the fetch invoked exactly one.  get_object_from_salesforce *)
(* is used exactly when no query is configured, with sign_in invoked once; *)
(* make_query exactly when a query is configured, with sign_in invoked a   *)
(* second time immediately before it.                                      *)
C10_FetchModesExclusive ==
    InExecute =>
        /\ Cardinality(FetchPositions) <= 1
        /\ (pc \in {"e_write", "e_flush", "e_load", "e_close", "e_tmp_close"}
              \/ status = "returned") => Cardinality(FetchPositions) = 1
        /\ \A i \in Positions("get_object_from_salesforce") :
               /\ ~Truthy(cfg.query)
               /\ Count("sign_in") = 1
        /\ \A i \in Positions("make_query") :
               /\ Truthy(cfg.query)
               /\ Count("sign_in") = 2
               /\ i > 1
               /\ calls[i - 1].op = "sign_in"
               /\ calls[1].op = "sign_in"

C10_Witness ==
    /\ InExecute
    /\ status = "returned"
    /\ Count("make_query") = 1
    /\ Count("get_object_from_salesforce") = 0
    /\ Count("sign_in") = 2

====
